---- MODULE Spec2Model ----
(***************************************************************************)
(* A model of the JJWXC top-ten scraper (src/晋江论坛.py): the listing     *)
(* parser parse_topten with its channel inference, the detail parsers      *)
(* (_extract_value_by_label, _parse_word_count, _split_tags, parse_detail) *)
(* and the assembling loop build_dataset.                                  *)
(*                                                                         *)
(* Conventions.                                                            *)
(*  - A Python str is a sequence of characters; a character is a one-      *)
(*    token string.  Characters outside ASCII are written by code point    *)
(*    ("U+FF0C" is the full-width comma, "U+8A00", "U+60C5" are the two    *)
(*    characters of the keyword 言情); a detail-page label such as         *)
(*    文章类型 is one token, since the code only ever searches for it      *)
(*    whole.                                                               *)
(*  - Optional[T] is a sequence of length at most one: None is << >> and   *)
(*    a present value v is <<v>>.                                          *)
(*  - An insertion-ordered dict is a sequence of [key, value] records.     *)
(***************************************************************************)
EXTENDS Integers, Sequences, FiniteSets, TLC

VARIABLES
    pc,                 \* position of the running call
    arg,                \* argument of the pure function under check
    ret,                \* its return value (Optional)
    listing,            \* the listing document served at TOPTEN_URL
    channel_books_map,  \* build_dataset: result of parse_topten
    output_channels,    \* build_dataset: channel -> enriched entries
    enriched,           \* build_dataset: entries of the current channel
    ci,                 \* build_dataset: index of the current channel
    bi,                 \* build_dataset: index of the current book
    detail,             \* build_dataset: the local variable detail
    requests            \* the detail fetches issued so far, with outcome

vars == <<pc, arg, ret, listing, channel_books_map, output_channels,
          enriched, ci, bi, detail, requests>>

pureVars == <<pc, arg, ret>>
datasetVars == <<listing, channel_books_map, output_channels, enriched,
                 ci, bi, detail, requests>>

None == << >>
Some(v) == <<v>>

(***************************************************************************)
(* Generic sequence helpers.                                               *)
(***************************************************************************)
RECURSIVE SeqsUpTo(_, _)
SeqsUpTo(S, n) ==
    IF n = 0 THEN {<< >>}
    ELSE LET shorter == SeqsUpTo(S, n - 1)
         IN  shorter \cup {Append(s, c) : s \in {t \in shorter : Len(t) = n - 1}, c \in S}

Range(s) == {s[i] : i \in 1..Len(s)}

\* the slice s[i..j] (empty when i > j)
Slice(s, i, j) == IF i > j THEN << >> ELSE SubSeq(s, i, j)

(***************************************************************************)
(* Character classes.                                                      *)
(***************************************************************************)
Digits == {"0", "1", "2", "3", "4", "5", "6", "7", "8", "9"}

DigitVal(c) ==
    CASE c = "0" -> 0 [] c = "1" -> 1 [] c = "2" -> 2 [] c = "3" -> 3
      [] c = "4" -> 4 [] c = "5" -> 5 [] c = "6" -> 6 [] c = "7" -> 7
      [] c = "8" -> 8 [] c = "9" -> 9

\* Python's \s and str.isspace(): space, tab, line feed, no-break space,
\* ideographic (full-width) space
Whitespace == {" ", "TAB", "LF", "U+00A0", "U+3000"}

\* str.strip()
RECURSIVE LStrip(_)
LStrip(s) ==
    IF s # << >> /\ Head(s) \in Whitespace THEN LStrip(Tail(s)) ELSE s

RECURSIVE RStrip(_)
RStrip(s) ==
    IF s # << >> /\ s[Len(s)] \in Whitespace
    THEN RStrip(SubSeq(s, 1, Len(s) - 1)) ELSE s

Strip(s) == RStrip(LStrip(s))

\* int(str) of a non-empty digit string
RECURSIVE IntOf(_)
IntOf(s) ==
    IF s = << >> THEN 0
    ELSE 10 * IntOf(SubSeq(s, 1, Len(s) - 1)) + DigitVal(s[Len(s)])

(***************************************************************************)
(* _parse_word_count (lines 334-345)                                       *)
(***************************************************************************)
\* the character class of the pattern ([\d,，]+)
WordCountClass == Digits \cup {",", "U+FF0C"}

\* re.search(r"([\d,，]+)", s): the leftmost, longest run of class
\* characters; None when the string holds no class character
RECURSIVE TakeWhileIn(_, _)
TakeWhileIn(s, C) ==
    IF s # << >> /\ Head(s) \in C
    THEN <<Head(s)>> \o TakeWhileIn(Tail(s), C) ELSE << >>

RECURSIVE SearchWordCountRun(_)
SearchWordCountRun(s) ==
    IF s = << >> THEN None
    ELSE IF Head(s) \in WordCountClass THEN Some(TakeWhileIn(s, WordCountClass))
    ELSE SearchWordCountRun(Tail(s))

\* m.group(1).replace(",", "").replace("，", "")
RemoveCommas(s) == SelectSeq(s, LAMBDA c : c \notin {",", "U+FF0C"})

\* int(num) inside try/except: the empty string raises ValueError -> None
IntOrNone(num) == IF num = << >> THEN None ELSE Some(IntOf(num))

_parse_word_count(s) ==
    IF s = None \/ s[1] = << >> THEN None
    ELSE LET m == SearchWordCountRun(s[1])
         IN  IF m = None THEN None
             ELSE IntOrNone(RemoveCommas(m[1]))

(***************************************************************************)
(* _split_tags (lines 348-372)                                             *)
(***************************************************************************)
\* the character class of re.split(r"[ 　、，,;/；|｜/·•]+", s)
TagDelims == {" ", "U+3000", "U+3001", "U+FF0C", ",", ";", "/", "U+FF1B",
              "|", "U+FF5C", "U+00B7", "U+2022"}

\* s.replace("\xa0", " ")
ReplaceNbsp(s) == [i \in 1..Len(s) |-> IF s[i] = "U+00A0" THEN " " ELSE s[i]]

\* re.sub(r"\s+", " ", s): every maximal whitespace run becomes one space
RECURSIVE CollapseWhitespace(_)
CollapseWhitespace(s) ==
    IF s = << >> THEN << >>
    ELSE IF Head(s) \in Whitespace
         THEN <<" ">> \o CollapseWhitespace(LStrip(s))
         ELSE <<Head(s)>> \o CollapseWhitespace(Tail(s))

\* lines 357-358
NormalizeTagString(s) == Strip(CollapseWhitespace(ReplaceNbsp(s)))

\* re.split on runs of delimiters: the pieces between the runs, an empty
\* piece where the string starts or ends with a run
RECURSIVE SplitRuns(_, _, _)
SplitRuns(s, D, cur) ==
    IF s = << >> THEN <<cur>>
    ELSE IF Head(s) \in D
         THEN <<cur>> \o SplitRuns(LET RECURSIVE Drop(_)
                                       Drop(t) == IF t # << >> /\ Head(t) \in D
                                                  THEN Drop(Tail(t)) ELSE t
                                   IN  Drop(s), D, << >>)
         ELSE SplitRuns(Tail(s), D, Append(cur, Head(s)))

\* [p.strip() for p in parts if p and p.strip()]
StripNonEmpty(parts) ==
    LET kept == SelectSeq(parts, LAMBDA p : p # << >> /\ Strip(p) # << >>)
    IN  [i \in 1..Len(kept) |-> Strip(kept[i])]

\* faulty variant: the dedup loop appends without consulting the seen set
Uniq_KeepsDuplicates(tags, seenTags) == tags

\* the order-preserving dedup loop of lines 365-370
RECURSIVE Uniq(_, _)
Uniq(tags, seenTags) ==
    IF tags = << >> THEN << >>
    ELSE IF Head(tags) \in seenTags THEN Uniq(Tail(tags), seenTags)
         ELSE <<Head(tags)>> \o Uniq(Tail(tags), seenTags \cup {Head(tags)})

_split_tags(s) ==
    IF s = None \/ s[1] = << >> THEN None
    ELSE LET norm  == NormalizeTagString(s[1])
             parts == SplitRuns(norm, TagDelims, << >>)
             uniq  == Uniq(StripNonEmpty(parts), {})
         IN  IF uniq = << >> THEN None ELSE Some(uniq)

(***************************************************************************)
(* Substrings and case.                                                    *)
(***************************************************************************)
\* Python's "sub in s"
Contains(s, sub) ==
    \E i \in 1..(Len(s) - Len(sub) + 1) : SubSeq(s, i, i + Len(sub) - 1) = sub

UpperLetters == <<"A", "B", "C", "D", "E", "F", "G", "H", "I", "J", "K", "L", "M",
                  "N", "O", "P", "Q", "R", "S", "T", "U", "V", "W", "X", "Y", "Z">>
LowerLetters == <<"a", "b", "c", "d", "e", "f", "g", "h", "i", "j", "k", "l", "m",
                  "n", "o", "p", "q", "r", "s", "t", "u", "v", "w", "x", "y", "z">>

\* str.lower()
Lower(s) ==
    [i \in 1..Len(s) |->
        IF \E k \in 1..Len(UpperLetters) : UpperLetters[k] = s[i]
        THEN LowerLetters[CHOOSE k \in 1..Len(UpperLetters) : UpperLetters[k] = s[i]]
        ELSE s[i]]

\* the first n elements of s (all of s when it is shorter)
Take(s, n) == SubSeq(s, 1, IF Len(s) < n THEN Len(s) ELSE n)

(***************************************************************************)
(* parse_topten: channel inference (lines 153-197)                         *)
(*                                                                         *)
(* A tag is [name, class, id, text]: its name, its class attribute joined  *)
(* with spaces, its id attribute and its text.  find_all_previous of a ul  *)
(* is the sequence of the tags that open before it, closest first.         *)
(***************************************************************************)
\* line 153
KEYWORDS == {
    <<"U+8A00", "U+60C5">>,            \* 言情
    <<"U+7EAF", "U+7231">>,            \* 纯爱
    <<"U+767E", "U+5408">>,            \* 百合
    <<"U+65E0", "C", "P">>,            \* 无CP
    <<"U+884D", "U+751F">>,            \* 衍生
    <<"U+4E8C", "U+6B21", "U+5143">>,  \* 二次元
    <<"U+8F7B", "U+5C0F", "U+8BF4">>,  \* 轻小说
    <<"U+5F71", "U+89C6">>,            \* 影视
    <<"U+7EFC", "U+6F2B">>,            \* 综漫
    <<"U+53E4", "U+4EE3">>,            \* 古代
    <<"U+73B0", "U+4EE3">>,            \* 现代
    <<"U+5E7B", "U+60F3">>,            \* 幻想
    <<"U+60AC", "U+7591">>,            \* 悬疑
    <<"U+79D1", "U+5E7B">>,            \* 科幻
    <<"U+6E38", "U+620F">> }           \* 游戏

\* "未分类"
Uncategorized == <<"U+672A", "U+5206", "U+7C7B">>

\* the half-width and the full-width colon
Colons == {":", "U+FF1A"}

ChannelMinLen == 2
ChannelMaxLen == 20
HeadingLimit == 30
HintedLimit == 60
AnyTagLimit == 80

Tag(name, class, id, text) == [name |-> name, class |-> class, id |-> id, text |-> text]

\* lines 155-159
clean_channel(text) ==
    LET t1 == Strip(text)
        t2 == SelectSeq(t1, LAMBDA c : c \notin Colons)
        t3 == SelectSeq(t2, LAMBDA c : c \notin Whitespace)
    IN  IF t3 = << >> THEN Uncategorized ELSE t3

\* faulty variant: the length test excludes the upper bound
looks_like_channel_ShortOnly(text) ==
    LET t == clean_channel(text)
    IN  /\ t # << >>
        /\ ChannelMinLen <= Len(t) /\ Len(t) < ChannelMaxLen
        /\ \E k \in KEYWORDS : Contains(t, k)

\* lines 161-166
looks_like_channel(text) ==
    LET t == clean_channel(text)
    IN  /\ t # << >>
        /\ ChannelMinLen <= Len(t) /\ Len(t) <= ChannelMaxLen
        /\ \E k \in KEYWORDS : Contains(t, k)

\* prev.get_text(strip=True) of a tag holding one text node
TagText(tag) == Strip(tag.text)

\* find_all_previous(names, limit=n): the first n tags with one of the names
FindAllPrevious(prevs, names, n) ==
    Take(SelectSeq(prevs, LAMBDA tag : tag.name \in names), n)

\* the loop "for prev in ...: if looks_like_channel(txt): return clean_channel(txt)";
\* None when the loop ends without returning
RECURSIVE FirstChannelFrom(_, _)
FirstChannelFrom(tags, i) ==
    IF i > Len(tags) THEN None
    ELSE IF looks_like_channel(TagText(tags[i]))
         THEN Some(clean_channel(TagText(tags[i])))
         ELSE FirstChannelFrom(tags, i + 1)

FirstChannel(tags) == FirstChannelFrom(tags, 1)

HeadingNames == {"h1", "h2", "h3", "h4", "h5", "h6"}
BlockNames == {"div", "span", "td", "th"}
HintWords == {<<"t", "i", "t", "l", "e">>,
              <<"c", "h", "a", "n", "n", "e", "l">>,
              <<"c", "a", "t", "e", "g", "o", "r", "y">>}

\* lines 184-185
Hinted(tag) ==
    \E w \in HintWords : Contains(Lower(tag.class), w) \/ Contains(Lower(tag.id), w)

\* faulty variant: the class/id-hinted blocks are tried before the headings
find_channel_for_ul_HintedFirst(prevs) ==
    LET tier1 == FirstChannel(FindAllPrevious(prevs, HeadingNames, HeadingLimit))
        tier2 == FirstChannel(SelectSeq(FindAllPrevious(prevs, BlockNames, HintedLimit),
                                        Hinted))
        tier3 == FirstChannel(Take(prevs, AnyTagLimit))
    IN  IF tier2 # None THEN tier2[1]
        ELSE IF tier1 # None THEN tier1[1]
        ELSE IF tier3 # None THEN tier3[1]
        ELSE Uncategorized

\* lines 168-197
find_channel_for_ul(prevs) ==
    LET tier1 == FirstChannel(FindAllPrevious(prevs, HeadingNames, HeadingLimit))
        tier2 == FirstChannel(SelectSeq(FindAllPrevious(prevs, BlockNames, HintedLimit),
                                        Hinted))
        tier3 == FirstChannel(Take(prevs, AnyTagLimit))
    IN  IF tier1 # None THEN tier1[1]
        ELSE IF tier2 # None THEN tier2[1]
        ELSE IF tier3 # None THEN tier3[1]
        ELSE Uncategorized

(***************************************************************************)
(* Detail pages.                                                           *)
(*                                                                         *)
(* A page is the sequence, in document order, of the leaf elements of a    *)
(* table: the cell [name, id, class, style, text, row] is an element named *)
(* name inside the row-th <tr>, holding one text node (none when text is   *)
(* empty).  Cells of one row are siblings.  A label (文章类型, ...) is one *)
(* token of a text.                                                        *)
(***************************************************************************)
Element(name, id, class, style, text, row) ==
    [name |-> name, id |-> id, class |-> class, style |-> style, text |-> text,
     row |-> row]

\* an element without id, class or style
Cell(name, text, row) == Element(name, "", {}, << >>, text, row)

ArticleTypeLabel == "L:article_type"    \* 文章类型

\* the least element of a non-empty set of indices, 0 for the empty set
FirstIndex(S) == IF S = {} THEN 0 ELSE CHOOSE i \in S : \A j \in S : i <= j

\* soup.find(string=re.compile(re.escape(label))): the first text node
\* holding the label, as the index of its parent; 0 when there is none
FindString(page, label) ==
    FirstIndex({i \in 1..Len(page) : Contains(page[i].text, <<label>>)})

\* parent.find_next_sibling("td")
FindNextSibling(page, i, name) ==
    FirstIndex({j \in (i + 1)..Len(page) :
                   page[j].row = page[i].row /\ page[j].name = name})

\* parent.find_next(["td", "span", "div"])
FindNext(page, i, names) ==
    FirstIndex({j \in (i + 1)..Len(page) : page[j].name \in names})

\* el.get_text(sep, strip=True) of an element holding one text node
GetText(cell) == Strip(cell.text)

\* soup.get_text("\n", strip=True).splitlines(): the stripped, non-empty
\* text nodes, one per line
TextLines(page) ==
    LET texts == [i \in 1..Len(page) |-> GetText(page[i])]
    IN  SelectSeq(texts, LAMBDA l : l # << >>)

\* the match of label\s*[:：]\s*(.+)$ that starts at position i of the line:
\* group(1).strip(), or None when the pattern does not match there
MatchAt(line, label, i) ==
    LET afterLabel == LStrip(Slice(line, i + 1, Len(line)))
    IN  IF line[i] = label /\ afterLabel # << >> /\ Head(afterLabel) \in Colons
            /\ Len(afterLabel) > 1
        THEN Some(Strip(Tail(afterLabel)))
        ELSE None

\* re.search(rf"{label}\s*[:：]\s*(.+)$", line): the leftmost match
SearchLabelValue(line, label) ==
    LET hits == {i \in 1..Len(line) : MatchAt(line, label, i) # None}
    IN  IF hits = {} THEN None ELSE MatchAt(line, label, FirstIndex(hits))

\* lines 298-307
RECURSIVE TextualTier(_, _)
TextualTier(lines, label) ==
    IF lines = << >> THEN None
    ELSE LET line == Head(lines)
             m == SearchLabelValue(line, label)
         IN  IF Contains(line, <<label>>) /\ m # None
             THEN (IF m[1] = << >> THEN None ELSE Some(m[1]))
             ELSE TextualTier(Tail(lines), label)

\* lines 272-307
_extract_value_by_label(page, label) ==
    LET node == FindString(page, label)
        sib == IF node # 0 /\ page[node].name \in {"td", "th"}
               THEN FindNextSibling(page, node, "td") ELSE 0
        nxt == IF node # 0 THEN FindNext(page, node, {"td", "span", "div"}) ELSE 0
    IN  IF sib # 0
        THEN (IF GetText(page[sib]) = << >> THEN None ELSE Some(GetText(page[sib])))
        ELSE IF nxt # 0 /\ GetText(page[nxt]) # << >>
                /\ ~Contains(GetText(page[nxt]), <<label>>)
        THEN Some(GetText(page[nxt]))
        ELSE TextualTier(TextLines(page), label)

(***************************************************************************)
(* The listing document.                                                   *)
(*                                                                         *)
(* A listing is the sequence of its entries in document order.  The entry  *)
(* [ul, heading, link, author_span, author_a] is an element holding at     *)
(* most one novel link:                                                    *)
(*   ul          TRUE when a new <ul class="list_01"> opens right before   *)
(*               the entry, which is then its first <li>;                  *)
(*   heading     the text of an <h2> right before that ul (Optional);      *)
(*   link        the entry's <a href="onebook.php?novelid=V"> (Optional):  *)
(*               [novelid |-> V, text, title, alt], title and alt being    *)
(*               the attributes, empty when missing;                       *)
(*   author_span, author_a   the text of its <span class="author"> and of  *)
(*               its <a href="oneauthor.php?authorid=..."> (Optional).     *)
(* An entry with ul = FALSE is a further <li> of the ul opened last, or,   *)
(* when no ul was opened yet, lies outside every ul.list_01.               *)
(***************************************************************************)
Entry(ul, heading, link, author_span, author_a) ==
    [ul |-> ul, heading |-> heading, link |-> link,
     author_span |-> author_span, author_a |-> author_a]

Link(novelid, text, title, alt) ==
    [novelid |-> novelid, text |-> text, title |-> title, alt |-> alt]

\* the entry at i lies in a ul.list_01
InContainer(doc, i) == \E j \in 1..i : doc[j].ul

\* the index of the entry that opens the ul of entry i
ContainerOf(doc, i) == CHOOSE j \in 1..i : doc[j].ul /\ \A k \in (j + 1)..i : ~doc[k].ul

AllDigits(s) == \A i \in 1..Len(s) : s[i] \in Digits

\* lines 102-120, for the href "onebook.php?novelid=" + v: parse_qs drops a
\* blank value; int() of the value raises unless it is all digits; the
\* pattern novelid=(\d+) then takes the leading digits
parse_novelid(v) ==
    IF v # << >> /\ AllDigits(v) THEN Some(IntOf(v))
    ELSE IF TakeWhileIn(v, Digits) # << >> THEN Some(IntOf(TakeWhileIn(v, Digits)))
    ELSE None

BASE_URL == "https://www.jjwxc.net/"

\* urljoin(BASE_URL, f"onebook.php?novelid={novelid}")
DetailUrl(novelid) == <<BASE_URL, "onebook.php?novelid=", novelid>>

ToptenItem(novelid, title, author, channel) ==
    [novelid |-> novelid, title |-> title, author |-> author, channel |-> channel,
     detail_url |-> DetailUrl(novelid)]

\* the text of an Optional element, "" when the element is missing
TextOf(opt) == IF opt = None THEN << >> ELSE Strip(opt[1])

\* the tags an entry contributes to the document, in document order
EntryTags(doc, i) ==
    LET e == doc[i]
        authors == TextOf(e.author_span) \o TextOf(e.author_a)
        liText(k) == (IF doc[k].link = None THEN << >> ELSE Strip(doc[k].link[1].text))
                     \o TextOf(doc[k].author_span) \o TextOf(doc[k].author_a)
        lis == {k \in i..Len(doc) : \A j \in (i + 1)..k : ~doc[j].ul}
        RECURSIVE ulText(_)
        ulText(k) == IF k \in lis THEN liText(k) \o ulText(k + 1) ELSE << >>
    IN  (IF e.heading # None THEN <<Tag("h2", << >>, << >>, e.heading[1])>> ELSE << >>)
        \o (IF e.ul THEN <<Tag("ul", <<"l", "i", "s", "t", "_", "0", "1">>, << >>, ulText(i))>>
            ELSE << >>)
        \o (IF InContainer(doc, i) THEN <<Tag("li", << >>, << >>, liText(i))>> ELSE << >>)
        \o (IF e.link # None THEN <<Tag("a", << >>, << >>, e.link[1].text)>> ELSE << >>)
        \o (IF e.author_span # None
            THEN <<Tag("span", <<"a", "u", "t", "h", "o", "r">>, << >>, e.author_span[1])>>
            ELSE << >>)
        \o (IF e.author_a # None THEN <<Tag("a", << >>, << >>, e.author_a[1])>> ELSE << >>)

RECURSIVE Reverse(_)
Reverse(s) == IF s = << >> THEN << >> ELSE Reverse(Tail(s)) \o <<Head(s)>>

RECURSIVE TagsBefore(_, _)
TagsBefore(doc, i) ==
    IF i = 1 THEN << >> ELSE TagsBefore(doc, i - 1) \o EntryTags(doc, i - 1)

\* ul.find_all_previous(...) for the ul that entry i opens: every tag that
\* opens before the ul, closest first
PreviousTags(doc, i) ==
    Reverse(TagsBefore(doc, i)
            \o (IF doc[i].heading # None
                THEN <<Tag("h2", << >>, << >>, doc[i].heading[1])>> ELSE << >>))

\* faulty variant: a further book of a channel is put in front of the others
SetDefaultAppend_Prepends(map, channel, item) ==
    IF \E k \in 1..Len(map) : map[k].channel = channel
    THEN [k \in 1..Len(map) |->
             IF map[k].channel = channel
             THEN [map[k] EXCEPT !.books = <<item>> \o @] ELSE map[k]]
    ELSE Append(map, [channel |-> channel, books |-> <<item>>])

\* dict.setdefault(channel, []).append(item) on an insertion-ordered dict
SetDefaultAppend(map, channel, item) ==
    IF \E k \in 1..Len(map) : map[k].channel = channel
    THEN [k \in 1..Len(map) |->
             IF map[k].channel = channel
             THEN [map[k] EXCEPT !.books = Append(@, item)] ELSE map[k]]
    ELSE Append(map, [channel |-> channel, books |-> <<item>>])

\* faulty variant: the identity is never found in the seen set
AlreadySeen_Never(novelid, seen) == FALSE

\* "novelid in seen" (lines 219 and 253)
AlreadySeen(novelid, seen) == novelid \in seen

\* "not novelid": None or 0
Falsy(novelid) == novelid = None \/ novelid[1] = 0

\* line 223: link text, else title attribute, else alt attribute, else ""
ContainerTitle(link) ==
    IF Strip(link.text) # << >> THEN Strip(link.text)
    ELSE IF link.title # << >> THEN link.title
    ELSE link.alt

\* lines 228-237
AuthorOf(e) ==
    LET fromSpan == IF e.author_span # None THEN Some(Strip(e.author_span[1])) ELSE None
    IN  IF (fromSpan = None \/ fromSpan[1] = << >>) /\ e.author_a # None
        THEN Some(Strip(e.author_a[1]))
        ELSE fromSpan

\* one <li> of the loop of lines 211-246; st = [map, seen]
ContainerStep(st, e, channel) ==
    IF e.link = None THEN st
    ELSE LET novelid == parse_novelid(e.link[1].novelid)
         IN  IF Falsy(novelid) \/ AlreadySeen(novelid[1], st.seen) THEN st
             ELSE LET seen2 == st.seen \cup {novelid[1]}
                      title == ContainerTitle(e.link[1])
                  IN  IF title = << >> THEN [st EXCEPT !.seen = seen2]
                      ELSE [map |-> SetDefaultAppend(st.map, channel,
                                        ToptenItem(novelid[1], title, AuthorOf(e), channel)),
                            seen |-> seen2]

\* lines 208-246: the uls in document order, the <li> of each in order
RECURSIVE ContainerPass(_, _, _)
ContainerPass(doc, i, st) ==
    IF i > Len(doc) THEN st
    ELSE IF ~InContainer(doc, i) THEN ContainerPass(doc, i + 1, st)
    ELSE ContainerPass(doc, i + 1,
             ContainerStep(st, doc[i],
                           find_channel_for_ul(PreviousTags(doc, ContainerOf(doc, i)))))

\* faulty variant: the whole-document scan falls back to the title attribute too
FallbackTitle_WithAttributes(link) == ContainerTitle(link)

\* line 255
FallbackTitle(link) == Strip(link.text)

\* one link of the loop of lines 250-267
FallbackStep(st, e) ==
    IF e.link = None THEN st
    ELSE LET novelid == parse_novelid(e.link[1].novelid)
             title == FallbackTitle(e.link[1])
         IN  IF Falsy(novelid) \/ AlreadySeen(novelid[1], st.seen) THEN st
             ELSE IF title = << >> THEN st
             ELSE [map |-> SetDefaultAppend(st.map, Uncategorized,
                               ToptenItem(novelid[1], title, None, Uncategorized)),
                   seen |-> st.seen \cup {novelid[1]}]

RECURSIVE FallbackPass(_, _, _)
FallbackPass(doc, i, st) ==
    IF i > Len(doc) THEN st
    ELSE FallbackPass(doc, i + 1, FallbackStep(st, doc[i]))

\* lines 150-269
parse_topten(doc) ==
    LET st == ContainerPass(doc, 1, [map |-> << >>, seen |-> {}])
    IN  IF st.map = << >> THEN FallbackPass(doc, 1, st).map ELSE st.map

(***************************************************************************)
(* parse_detail and its helpers (lines 310-331, 375-396)                   *)
(***************************************************************************)
ViewpointLabel == "L:viewpoint"         \* 作品视角
WordCountLabel == "L:word_count"        \* 全文字数
TagsLabel == "L:tags"                   \* 内容标签
OneSentenceLabel == "L:one_sentence"    \* 一句话简介
SummaryLabel == "L:summary"             \* 小说简介

\* the selectors of _extract_summary, in order: "#novelintro",
\* "#onebookintro", ".noveltext", ".novelintro", "div[style*='简介']"
SummarySelectorCount == 5

Selects(k, cell) ==
    CASE k = 1 -> cell.id = "novelintro"
      [] k = 2 -> cell.id = "onebookintro"
      [] k = 3 -> "noveltext" \in cell.class
      [] k = 4 -> "novelintro" \in cell.class
      [] k = 5 -> cell.name = "div" /\ Contains(cell.style, <<"U+7B80", "U+4ECB">>)

\* soup.select_one(sel): the index of the first element selected, 0 if none
SelectOne(page, k) == FirstIndex({i \in 1..Len(page) : Selects(k, page[i])})

\* lines 324-331
RECURSIVE SummaryFrom(_, _)
SummaryFrom(page, k) ==
    IF k > SummarySelectorCount THEN _extract_value_by_label(page, SummaryLabel)
    ELSE LET el == SelectOne(page, k)
         IN  IF el # 0 /\ GetText(page[el]) # << >> THEN Some(GetText(page[el]))
             ELSE SummaryFrom(page, k + 1)

_extract_summary(page) == SummaryFrom(page, 1)

\* NovelDetail(): every field None (lines 47-55)
NovelDetail ==
    [article_type |-> None, viewpoint |-> None, word_count |-> None, summary |-> None,
     tags |-> None, one_sentence |-> None, raw |-> None]

\* "x or ''"
OrEmpty(opt) == IF opt = None THEN << >> ELSE opt[1]

\* lines 375-396
parse_detail(page) ==
    LET word_count_raw == _extract_value_by_label(page, WordCountLabel)
        tags_raw == _extract_value_by_label(page, TagsLabel)
    IN  [article_type |-> _extract_value_by_label(page, ArticleTypeLabel),
         viewpoint |-> _extract_value_by_label(page, ViewpointLabel),
         word_count |-> _parse_word_count(word_count_raw),
         summary |-> _extract_summary(page),
         tags |-> _split_tags(tags_raw),
         one_sentence |-> _extract_value_by_label(page, OneSentenceLabel),
         raw |-> Some([word_count_raw |-> OrEmpty(word_count_raw),
                       tags_raw |-> OrEmpty(tags_raw)])]

(***************************************************************************)
(* build_dataset (lines 398-442)                                           *)
(***************************************************************************)
\* the dict appended to enriched (lines 425-432)
EnrichedEntry(b, d) ==
    [novelid |-> b.novelid, title |-> b.title, author |-> b.author,
     channel |-> b.channel, detail_url |-> b.detail_url, detail |-> d]

\* faulty variant: an item whose detail step failed is left out
EnrichedAppend_SkipsFailed(enr, b, d) ==
    IF d = NovelDetail THEN enr ELSE Append(enr, EnrichedEntry(b, d))

\* enriched.append({...}) (line 425)
EnrichedAppend(enr, b, d) == Append(enr, EnrichedEntry(b, d))

(***************************************************************************)
(* Idle values: a specification that exercises one part of the program     *)
(* holds the variables of the other parts at these.                        *)
(***************************************************************************)
DatasetIdle ==
    /\ listing = << >>
    /\ channel_books_map = << >>
    /\ output_channels = << >>
    /\ enriched = << >>
    /\ ci = 0
    /\ bi = 0
    /\ detail = None
    /\ requests = << >>

(***************************************************************************)
(* Specification of _parse_word_count: every raw value up to MaxWcLen      *)
(* characters, and the absent value.                                       *)
(***************************************************************************)
MaxWcLen == 4

WcAlphabet == {"0", "1", "2", ",", "U+FF0C", "zi"}

WcInputs == {None} \cup {Some(s) : s \in SeqsUpTo(WcAlphabet, MaxWcLen)}

InitWordCount ==
    /\ pc = "call"
    /\ arg \in WcInputs
    /\ ret = None
    /\ DatasetIdle

CallParseWordCount ==
    /\ pc = "call"
    /\ ret' = _parse_word_count(arg)
    /\ pc' = "done"
    /\ UNCHANGED <<arg, datasetVars>>

NextWordCount == CallParseWordCount

SpecWordCount == InitWordCount /\ [][NextWordCount]_vars

(***************************************************************************)
(* C7.  Word-count coercion: a raw value holding a digit yields the        *)
(* integer value of its first run of digits, the commas inside the run     *)
(* being separators; a raw value with no digit, an empty or an absent one  *)
(* yields absent.                                                          *)
(***************************************************************************)
HasDigit(s) == \E i \in 1..Len(s) : s[i] \in Digits

FirstDigitPos(s) ==
    CHOOSE i \in 1..Len(s) :
        s[i] \in Digits /\ \A j \in 1..(i - 1) : s[j] \notin Digits

\* the first run of digits: it starts at the first digit and goes on through
\* digits and separating commas; its digits, in order
FirstDigitRunDigits(s) ==
    LET p == FirstDigitPos(s)
        q == CHOOSE j \in p..Len(s) :
                 /\ \A k \in p..j : s[k] \in WordCountClass
                 /\ (j = Len(s) \/ s[j + 1] \notin WordCountClass)
    IN  SelectSeq(SubSeq(s, p, q), LAMBDA c : c \in Digits)

C7_WordCountIsFirstDigitRun ==
    pc = "done" =>
        ret = IF arg # None /\ HasDigit(arg[1])
              THEN Some(IntOf(FirstDigitRunDigits(arg[1])))
              ELSE None

(***************************************************************************)
(* Specification of _split_tags.                                           *)
(***************************************************************************)
MaxTagLen == 4

TagAlphabet == {"a", "b", " ", "U+3000", "U+3001", "LF", "U+00A0"}

TagInputs == {None} \cup {Some(s) : s \in SeqsUpTo(TagAlphabet, MaxTagLen)}

InitTags ==
    /\ pc = "call"
    /\ arg \in TagInputs
    /\ ret = None
    /\ DatasetIdle

CallSplitTags ==
    /\ pc = "call"
    /\ ret' = _split_tags(arg)
    /\ pc' = "done"
    /\ UNCHANGED <<arg, datasetVars>>

NextTags == CallSplitTags

SpecTags == InitTags /\ [][NextTags]_vars

(***************************************************************************)
(* C8.  Tag splitting.  The result is absent or a non-empty sequence       *)
(* without empty or whitespace-only fragment and without duplicate, which  *)
(* lists exactly the distinct fragments of the raw value in order of first *)
(* occurrence; absent, empty and delimiter-only input give absent.         *)
(***************************************************************************)
\* s[i..j] is a maximal run of characters outside D
IsFragment(s, D, i, j) ==
    /\ 1 <= i /\ i <= j /\ j <= Len(s)
    /\ \A k \in i..j : s[k] \notin D
    /\ (i = 1 \/ s[i - 1] \in D)
    /\ (j = Len(s) \/ s[j + 1] \in D)

FragmentSpans(s, D) ==
    {p \in (1..Len(s)) \X (1..Len(s)) : IsFragment(s, D, p[1], p[2])}

WhitespaceOnly(f) == \A k \in 1..Len(f) : f[k] \in Whitespace

\* the fragments of s between delimiters of D, less the whitespace-only ones
Fragments(s, D) ==
    {f \in {SubSeq(s, p[1], p[2]) : p \in FragmentSpans(s, D)} : ~WhitespaceOnly(f)}

FirstStart(s, D, f) ==
    CHOOSE i \in 1..Len(s) :
        /\ \E p \in FragmentSpans(s, D) : p[1] = i /\ SubSeq(s, p[1], p[2]) = f
        /\ \A p \in FragmentSpans(s, D) : SubSeq(s, p[1], p[2]) = f => i <= p[1]

\* r is what the claim asks of the raw value s, split on the delimiters D
TagsAsClaimed(r, s, D) ==
    IF s = None \/ Fragments(s[1], D) = {}
    THEN r = None
    ELSE /\ r # None
         /\ r[1] # << >>
         /\ Range(r[1]) = Fragments(s[1], D)
         /\ \A i, j \in 1..Len(r[1]) :
                i < j => /\ r[1][i] # r[1][j]
                         /\ FirstStart(s[1], D, r[1][i]) < FirstStart(s[1], D, r[1][j])

\* C8 as stated: the delimiter class is the one the claim lists
C8_TagsSplitOnListedDelimiters ==
    pc = "done" => TagsAsClaimed(ret, arg, TagDelims)

\* C8 as amended: every whitespace character (tab, line feed, no-break
\* space) delimits too, since the raw value is whitespace-normalised first
C8_TagsSplitOnDelimitersAndWhitespace ==
    pc = "done" => TagsAsClaimed(ret, arg, TagDelims \cup Whitespace)

\* a raw value whose two tags are separated by a line feed only, and one
\* holding a repeated tag
C8_Witness ==
    /\ pc = "done"
    /\ arg \in {Some(<<"a", "LF", "b">>), Some(<<"a", "U+3001", "a", "b">>)}
    /\ ret = Some(<< <<"a">>, <<"b">> >>)

(***************************************************************************)
(* Specification of find_channel_for_ul: the tags before one ul are two    *)
(* stretches, each a run of identical filler tags (none, or about as many  *)
(* as a tier's scan limit) followed by one candidate tag.                  *)
(***************************************************************************)
Repeat(x, n) == [i \in 1..n |-> x]

\* 排行榜: a text without keyword
Ranking == <<"U+6392", "U+884C", "U+699C">>

CandidateTags == {
    Tag("h2", << >>, << >>, <<"U+8A00", "U+60C5">>),
    Tag("h3", << >>, << >>, <<" ", "U+7EAF", "U+7231", "U+FF1A", " ">>),
    Tag("h2", << >>, << >>, Ranking),
    Tag("div", <<"t", "i", "t", "l", "e">>, << >>, <<"U+53E4", "U+4EE3">>),
    Tag("span", << >>, <<"C", "h", "a", "n", "n", "e", "l", "_", "2">>,
        <<"U+73B0", " ", "U+4EE3", ":">>),
    Tag("div", <<"n", "a", "v">>, << >>, <<"U+5E7B", "U+60F3">>),
    Tag("p", << >>, << >>, <<"U+60AC", "U+7591">>),
    Tag("td", <<"c", "a", "t", "e", "g", "o", "r", "y">>, << >>,
        Repeat("U+699C", ChannelMaxLen - 1) \o <<"U+79D1", "U+5E7B">>),
    Tag("h4", << >>, << >>,
        Repeat("U+699C", ChannelMaxLen - 2) \o <<"U+6E38", "U+620F">>) }

FillerTags == {
    Tag("h5", << >>, << >>, Ranking),
    Tag("div", <<"n", "a", "v">>, << >>, << >>),
    Tag("b", << >>, << >>, << >>) }

FillerCounts == {0, HeadingLimit - 1, HeadingLimit, HintedLimit - 1, HintedLimit,
                 AnyTagLimit - 1, AnyTagLimit}

\* the farther stretch: no filler, or enough to exhaust a scan limit
FarFillerCounts == {0, HeadingLimit, AnyTagLimit}

Stretches(counts) == {Repeat(f, n) \o <<c>> : f \in FillerTags, n \in counts,
                                              c \in CandidateTags}

InitChannel ==
    /\ pc = "call"
    /\ arg \in {near \o far : near \in Stretches(FillerCounts),
                              far \in Stretches(FarFillerCounts)}
    /\ ret = None
    /\ DatasetIdle

CallFindChannelForUl ==
    /\ pc = "call"
    /\ ret' = find_channel_for_ul(arg)
    /\ pc' = "done"
    /\ UNCHANGED <<arg, datasetVars>>

NextChannel == CallFindChannelForUl

SpecChannel == InitChannel /\ [][NextChannel]_vars

(***************************************************************************)
(* C10.  The label of a ul is decided by three tiers in strict priority    *)
(* order, each taking the closest preceding accepted tag within its scan   *)
(* limit: headings h1-h6, then div/span/td/th whose class or id holds      *)
(* title/channel/category (case-insensitively), then any tag.  A tag is    *)
(* accepted only if its text, whitespace and colons removed, has 2 to 20   *)
(* characters and holds a keyword.  The label is the cleaned text of the   *)
(* accepted tag, and 未分类 exactly when no tier accepts a tag.            *)
(***************************************************************************)
Cleaned(text) == SelectSeq(text, LAMBDA c : c \notin Whitespace \cup Colons)

Accepted(tag) ==
    /\ Len(Cleaned(tag.text)) \in ChannelMinLen..ChannelMaxLen
    /\ \E k \in KEYWORDS : Contains(Cleaned(tag.text), k)

\* tag i is among the first n tags of prevs that carry one of the names
WithinScan(prevs, names, n, i) ==
    /\ prevs[i].name \in names
    /\ Cardinality({j \in 1..i : prevs[j].name \in names}) <= n

HasHint(tag) ==
    \E w \in HintWords : Contains(Lower(tag.class \o <<" ">> \o tag.id), w)

\* the accepted tags (acc) that the heading tier scans
AcceptedHeadings(prevs, acc) ==
    {i \in acc : WithinScan(prevs, HeadingNames, HeadingLimit, i)}

\* the accepted tags that the class/id tier scans
AcceptedHinted(prevs, acc) ==
    {i \in acc : HasHint(prevs[i]) /\ WithinScan(prevs, BlockNames, HintedLimit, i)}

\* the accepted tags that the any-tag tier scans
AcceptedAny(prevs, acc) == {i \in acc : i <= AnyTagLimit}

Closest(S) == CHOOSE i \in S : \A j \in S : i <= j

C10_ChannelByThreeTiers ==
    pc = "done" =>
        LET acc == {i \in 1..Len(arg) : Accepted(arg[i])}
            a1 == AcceptedHeadings(arg, acc)
            a2 == AcceptedHinted(arg, acc)
            a3 == AcceptedAny(arg, acc)
        IN  /\ ret = IF a1 # {} THEN Cleaned(arg[Closest(a1)].text)
                     ELSE IF a2 # {} THEN Cleaned(arg[Closest(a2)].text)
                     ELSE IF a3 # {} THEN Cleaned(arg[Closest(a3)].text)
                     ELSE Uncategorized
            /\ (ret = Uncategorized <=> a1 \cup a2 \cup a3 = {})

\* a hinted block is closer to the ul than an accepted heading, and the
\* heading still names the channel
C10_Witness ==
    /\ pc = "done"
    /\ LET acc == {i \in 1..Len(arg) : Accepted(arg[i])}
           a1 == AcceptedHeadings(arg, acc)
           a2 == AcceptedHinted(arg, acc)
       IN  /\ a1 # {}
           /\ a2 # {}
           /\ Closest(a2) < Closest(a1)
           /\ ret = Cleaned(arg[Closest(a1)].text)
           /\ ret # Cleaned(arg[Closest(a2)].text)

(***************************************************************************)
(* Specification of _extract_value_by_label: pages of up to MaxCells       *)
(* cells in up to MaxCells rows, searched for the label 文章类型.          *)
(***************************************************************************)
MaxCells == 3

LabelCellNames == {"td", "th", "span", "p"}

\* "", "文章类型", "文章类型：v", "文章类型 : w" and "v"
LabelCellTexts == {
    << >>,
    <<ArticleTypeLabel>>,
    <<ArticleTypeLabel, "U+FF1A", "v">>,
    <<ArticleTypeLabel, " ", ":", " ", "w">>,
    <<"v">> }

\* the row of a cell appended to a page: the last row, or a new one
NextRows(page) ==
    IF page = << >> THEN {1} ELSE {page[Len(page)].row, page[Len(page)].row + 1}

\* the pages of exactly n cells
RECURSIVE LabelPages(_)
LabelPages(n) ==
    IF n = 0 THEN {<< >>}
    ELSE UNION {{Append(page, Cell(name, x, r)) :
                    name \in LabelCellNames, x \in LabelCellTexts, r \in NextRows(page)} :
                page \in LabelPages(n - 1)}

InitLabel ==
    /\ pc = "call"
    /\ arg \in UNION {LabelPages(n) : n \in 0..MaxCells}
    /\ ret = None
    /\ DatasetIdle

CallExtractValueByLabel ==
    /\ pc = "call"
    /\ ret' = _extract_value_by_label(arg, ArticleTypeLabel)
    /\ pc' = "done"
    /\ UNCHANGED <<arg, datasetVars>>

NextLabel == CallExtractValueByLabel

SpecLabel == InitLabel /\ [][NextLabel]_vars

(***************************************************************************)
(* C6.  The textual tier is consulted exactly when the structured tier     *)
(* yields nothing: if the structured tier (next-sibling td of a td/th      *)
(* label cell, else the next td/span/div whose text does not hold the      *)
(* label) gives no non-empty value and some text line matches              *)
(* "label [:：] value", the captured value, trimmed, is returned; the      *)
(* result is absent only if, in addition, no line matches.                 *)
(***************************************************************************)
\* the non-empty value the structured tier finds for the label, if any
StructuredValue(page, label) ==
    LET node == FindString(page, label)
        sib == IF node # 0 /\ page[node].name \in {"td", "th"}
               THEN FindNextSibling(page, node, "td") ELSE 0
        nxt == IF node # 0 THEN FindNext(page, node, {"td", "span", "div"}) ELSE 0
    IN  IF sib # 0 /\ GetText(page[sib]) # << >> THEN Some(GetText(page[sib]))
        ELSE IF nxt # 0 /\ GetText(page[nxt]) # << >>
                /\ ~Contains(GetText(page[nxt]), <<label>>)
        THEN Some(GetText(page[nxt]))
        ELSE None

\* the lines that match "label [:：] value"
MatchingLines(page, label) ==
    {i \in 1..Len(TextLines(page)) : SearchLabelValue(TextLines(page)[i], label) # None}

C6_TextualTierWhenStructuredYieldsNothing ==
    pc = "done" =>
        LET structured == StructuredValue(arg, ArticleTypeLabel)
            matching == MatchingLines(arg, ArticleTypeLabel)
        IN  /\ (structured = None /\ matching # {}) =>
                   ret = SearchLabelValue(TextLines(arg)[FirstIndex(matching)],
                                          ArticleTypeLabel)
            /\ ret = None => (structured = None /\ matching = {})

(***************************************************************************)
(* Specification of parse_topten: listings of up to MaxEntries entries.    *)
(***************************************************************************)
MaxEntries == 2

Title1 == <<"T", "1">>
Title2 == <<"T", "2">>
AuthorName == <<"a", "u">>
Yanqing == <<"U+8A00", "U+60C5">>   \* 言情
Chunai == <<"U+7EAF", "U+7231">>    \* 纯爱

\* how an entry starts: inside the running context, or as the first <li> of
\* a new ul.list_01 without heading, or with a heading 言情 or 纯爱
Openings == {<<FALSE, None>>, <<TRUE, None>>, <<TRUE, Some(Yanqing)>>,
             <<TRUE, Some(Chunai)>>}

\* [link, author_span, author_a] of the entries
EntryBodies == {
    <<Some(Link(<<"1">>, Title1, << >>, << >>)), Some(AuthorName), None>>,
    <<Some(Link(<<"2">>, Title2, << >>, << >>)), None, None>>,
    \* the identity 1 again, with another title; empty author span, author link
    <<Some(Link(<<"1">>, Title2, << >>, << >>)), Some(<< >>), Some(AuthorName)>>,
    \* no link text and no title or alt attribute
    <<Some(Link(<<"1">>, << >>, << >>, << >>)), None, None>>,
    \* blank link text, title attribute
    <<Some(Link(<<"2">>, <<" ">>, Title1, << >>)), None, None>>,
    \* novelid=0
    <<Some(Link(<<"0">>, Title1, << >>, << >>)), None, None>>,
    \* novelid=2a: int() fails, the pattern finds 2
    <<Some(Link(<<"2", "a">>, Title1, << >>, << >>)), None, None>>,
    \* novelid=a: no identity
    <<Some(Link(<<"a">>, Title1, << >>, << >>)), None, None>>,
    \* no novel link
    <<None, Some(AuthorName), None>> }

Entries(openings, bodies) ==
    {Entry(o[1], o[2], b[1], b[2], b[3]) : o \in openings, b \in bodies}

InitTopten ==
    /\ pc = "call"
    /\ arg \in SeqsUpTo(Entries(Openings, EntryBodies), MaxEntries)
    /\ ret = None
    /\ DatasetIdle

CallParseTopten ==
    /\ pc = "call"
    /\ ret' = parse_topten(arg)
    /\ pc' = "done"
    /\ UNCHANGED <<arg, datasetVars>>

NextTopten == CallParseTopten

SpecTopten == InitTopten /\ [][NextTopten]_vars

(***************************************************************************)
(* What the claims say of a listing, stated on the document.               *)
(***************************************************************************)
\* the identity of entry i: that of its link when it resolves to a usable
\* (non-zero) number, else 0
IdentityOf(doc, i) ==
    IF doc[i].link = None THEN 0
    ELSE LET n == parse_novelid(doc[i].link[1].novelid)
         IN  IF n = None THEN 0 ELSE n[1]

\* all items of a channel map, channel after channel
RECURSIVE AllBooks(_)
AllBooks(map) == IF map = << >> THEN << >> ELSE Head(map).books \o AllBooks(Tail(map))

ItemsWithIdentity(map, n) ==
    {k \in 1..Len(AllBooks(map)) : AllBooks(map)[k].novelid = n}

(***************************************************************************)
(* C1.  Identity dedup: when the same novelid appears in two or more list  *)
(* entries of ul.list_01 containers, the result holds exactly one item     *)
(* with that identity, the one built from the first such entry.  (Stated   *)
(* here only for identities of which some entry carries a title.)          *)
(***************************************************************************)
ListEntriesOf(doc, n) ==
    {i \in 1..Len(doc) : InContainer(doc, i) /\ IdentityOf(doc, i) = n}

\* the item the container pass builds from entry i
ItemBuiltFrom(doc, i) ==
    ToptenItem(IdentityOf(doc, i), ContainerTitle(doc[i].link[1]), AuthorOf(doc[i]),
               find_channel_for_ul(PreviousTags(doc, ContainerOf(doc, i))))

C1_FirstOccurrenceWins ==
    pc = "done" =>
        \A n \in {IdentityOf(arg, i) : i \in 1..Len(arg)} \ {0} :
            LET es == ListEntriesOf(arg, n)
            IN  (/\ Cardinality(es) >= 2
                 /\ \E i \in es : ContainerTitle(arg[i].link[1]) # << >>)
                => /\ Cardinality(ItemsWithIdentity(ret, n)) = 1
                   /\ \A k \in ItemsWithIdentity(ret, n) :
                          AllBooks(ret)[k] = ItemBuiltFrom(arg, FirstIndex(es))

(***************************************************************************)
(* C5.  Channel fallback: a listing without ul.list_01 container gives a   *)
(* single channel 未分类 that holds, in document order, one item per       *)
(* distinct resolvable identity with non-empty link text (the first such   *)
(* link), each with channel 未分类 and no author; the result is empty only *)
(* when the scan finds no such link.                                       *)
(***************************************************************************)
\* the links the whole-document scan turns into items
ScanItems(doc) ==
    LET usable(i) == IdentityOf(doc, i) # 0 /\ Strip(doc[i].link[1].text) # << >>
    IN  {i \in 1..Len(doc) :
            /\ usable(i)
            /\ \A j \in 1..(i - 1) :
                   ~(usable(j) /\ IdentityOf(doc, j) = IdentityOf(doc, i))}

C5_FallbackSingleChannel ==
    (pc = "done" /\ \A i \in 1..Len(arg) : ~arg[i].ul) =>
        LET found == ScanItems(arg)
        IN  IF found = {} THEN ret = << >>
            ELSE /\ Len(ret) = 1
                 /\ ret[1].channel = Uncategorized
                 /\ Len(ret[1].books) = Cardinality(found)
                 /\ \A i \in found :
                        ret[1].books[Cardinality({j \in found : j <= i})] =
                            [novelid |-> IdentityOf(arg, i),
                             title |-> Strip(arg[i].link[1].text),
                             author |-> None,
                             channel |-> Uncategorized,
                             detail_url |-> DetailUrl(IdentityOf(arg, i))]

\* two links of distinct identities outside any container
C5_Witness ==
    /\ pc = "done"
    /\ \A i \in 1..Len(arg) : ~arg[i].ul
    /\ Cardinality(ScanItems(arg)) = 2
    /\ Len(ret) = 1
    /\ Len(ret[1].books) = 2
    /\ ret[1].books[1].novelid # ret[1].books[2].novelid

(***************************************************************************)
(* Specification of build_dataset: a listing of up to MaxDatasetEntries    *)
(* entries is fetched and parsed, then one detail page is fetched per      *)
(* item; each fetch returns the item's page, returns an error page with a  *)
(* non-success status, or raises.                                          *)
(***************************************************************************)
MaxDatasetEntries == 3

\* every ul.list_01 of these listings has its heading
DatasetOpenings == {<<FALSE, None>>, <<TRUE, Some(Yanqing)>>, <<TRUE, Some(Chunai)>>}

DatasetEntryBodies == {
    <<Some(Link(<<"1">>, Title1, << >>, << >>)), Some(AuthorName), None>>,
    <<Some(Link(<<"2">>, Title2, << >>, << >>)), None, None>>,
    <<Some(Link(<<"3">>, Title1, << >>, << >>)), None, Some(AuthorName)>>,
    \* the identity 1 without link text, title or alt
    <<Some(Link(<<"1">>, << >>, << >>, << >>)), None, None>> }

\* the detail page of novel 1: label and value in adjacent cells, the
\* summary in div#novelintro
DetailPage1 == <<
    Cell("td", <<ArticleTypeLabel, "U+FF1A">>, 1), Cell("td", <<"v">>, 1),
    Cell("td", <<WordCountLabel, "U+FF1A">>, 2),
    Cell("td", <<"5", "0", ",", "0", "0", "0", "zi">>, 2),
    Cell("td", <<TagsLabel, "U+FF1A">>, 3), Cell("td", <<"a", "U+3000", "b", " ", "a">>, 3),
    Element("div", "novelintro", {}, << >>, <<"s">>, 4) >>

\* the detail page of novel 2: inline "label：value" lines, no word count
DetailPage2 == <<
    Cell("p", <<ViewpointLabel, "U+FF1A", "v">>, 1),
    Cell("p", <<OneSentenceLabel, ":", " ", "w">>, 2),
    Cell("p", <<SummaryLabel, "U+FF1A", "s">>, 3) >>

\* the body served with a non-success status: <h1>404</h1>
ErrorPage == <<Cell("h1", <<"4", "0", "4">>, 1)>>

\* the page served for a detail URL; novel 3 has an empty page
Web(novelid) ==
    CASE novelid = 1 -> DetailPage1
      [] novelid = 2 -> DetailPage2
      [] OTHER -> << >>

InitDataset ==
    /\ pc = "fetch_listing"
    /\ arg = None
    /\ ret = None
    /\ listing \in SeqsUpTo(Entries(DatasetOpenings, DatasetEntryBodies),
                            MaxDatasetEntries)
    /\ channel_books_map = << >>
    /\ output_channels = << >>
    /\ enriched = << >>
    /\ ci = 0
    /\ bi = 0
    /\ detail = None
    /\ requests = << >>

\* lines 399-409: the listing is fetched and parsed
FetchListing ==
    /\ pc = "fetch_listing"
    /\ channel_books_map' = parse_topten(listing)
    /\ IF parse_topten(listing) = << >>
       THEN pc' = "done" /\ UNCHANGED <<ci, bi>>
       ELSE pc' = "detail" /\ ci' = 1 /\ bi' = 1
    /\ UNCHANGED <<arg, ret, listing, output_channels, enriched, detail, requests>>

\* line 399: sess.get raises; nothing catches it
FetchListingRaises ==
    /\ pc = "fetch_listing"
    /\ pc' = "aborted"
    /\ UNCHANGED <<arg, ret, datasetVars>>

\* output_channels[channel] = enriched on an insertion-ordered dict
SetItem(dict, channel, items) ==
    IF \E k \in 1..Len(dict) : dict[k].channel = channel
    THEN [k \in 1..Len(dict) |->
             IF dict[k].channel = channel THEN [dict[k] EXCEPT !.items = items]
             ELSE dict[k]]
    ELSE Append(dict, [channel |-> channel, items |-> items])

\* the book the loops of lines 411-414 are at
CurrentBook == channel_books_map[ci].books[bi]

\* lines 425-433 and the loop headers: the entry is appended, and after the
\* last book of a channel the channel is stored and the next one begins
FinishBook(d, outcome) ==
    LET b == CurrentBook
        enr == EnrichedAppend(enriched, b, d)
    IN  /\ detail' = Some(d)
        /\ requests' = Append(requests, [novelid |-> b.novelid, url |-> b.detail_url,
                                         outcome |-> outcome])
        /\ IF bi = Len(channel_books_map[ci].books)
           THEN /\ output_channels' = SetItem(output_channels,
                                              channel_books_map[ci].channel, enr)
                /\ enriched' = << >>
                /\ bi' = 1
                /\ ci' = ci + 1
                /\ pc' = IF ci = Len(channel_books_map) THEN "done" ELSE "detail"
           ELSE /\ enriched' = enr
                /\ bi' = bi + 1
                /\ UNCHANGED <<output_channels, ci, pc>>
        /\ UNCHANGED <<arg, ret, listing, channel_books_map>>

\* lines 417-420: the page is fetched and parsed
DetailFetched ==
    /\ pc = "detail"
    /\ FinishBook(parse_detail(Web(CurrentBook.novelid)), "ok")

\* lines 95-99, 417-420: the server answers with a non-success status;
\* fetch_html returns the body, which is parsed like any page
DetailFetchedWithErrorStatus ==
    /\ pc = "detail"
    /\ \E status \in {404, 503} :
           FinishBook(parse_detail(ErrorPage), "status")

\* lines 421-423: the fetch (or the parse) raises
DetailRaises ==
    /\ pc = "detail"
    /\ \E exc \in {"ConnectionError", "Timeout"} :
           FinishBook(NovelDetail, "raised")

NextDataset ==
    \/ FetchListing
    \/ FetchListingRaises
    \/ DetailFetched
    \/ DetailFetchedWithErrorStatus
    \/ DetailRaises

SpecDataset == InitDataset /\ [][NextDataset]_vars

(***************************************************************************)
(* What the claims say of a run, stated on the listing document.           *)
(***************************************************************************)
\* the list entries that put their identity into the seen set
MarksSeen(doc, i) ==
    /\ InContainer(doc, i)
    /\ IdentityOf(doc, i) # 0
    /\ \A j \in 1..(i - 1) :
           ~(InContainer(doc, j) /\ IdentityOf(doc, j) = IdentityOf(doc, i))

\* the list entries that yield an item
ContainerYield(doc) ==
    {i \in 1..Len(doc) : MarksSeen(doc, i) /\ ContainerTitle(doc[i].link[1]) # << >>}

\* the links that yield an item in the whole-document scan
FallbackYield(doc) ==
    LET usable(i) ==
            /\ IdentityOf(doc, i) # 0
            /\ Strip(doc[i].link[1].text) # << >>
            /\ \A j \in 1..Len(doc) :
                   MarksSeen(doc, j) => IdentityOf(doc, j) # IdentityOf(doc, i)
    IN  {i \in 1..Len(doc) :
            /\ usable(i)
            /\ \A j \in 1..(i - 1) :
                   ~(usable(j) /\ IdentityOf(doc, j) = IdentityOf(doc, i))}

\* the entries of the document that the Item Extractor yields
Yielded(doc) ==
    IF ContainerYield(doc) # {} THEN ContainerYield(doc) ELSE FallbackYield(doc)

\* the channel of each yielded entry
ChannelOfEntry(doc) ==
    LET inLists == ContainerYield(doc)
    IN  IF inLists # {}
        THEN [i \in inLists |->
                 find_channel_for_ul(PreviousTags(doc, ContainerOf(doc, i)))]
        ELSE [i \in FallbackYield(doc) |-> Uncategorized]

\* the k-th element of a set of indices, in increasing order
Nth(S, k) == CHOOSE i \in S : Cardinality({j \in S : j <= i}) = k

\* the entries of output_channels and of the channel under way, in order
RECURSIVE AllItems(_)
AllItems(dict) == IF dict = << >> THEN << >> ELSE Head(dict).items \o AllItems(Tail(dict))

OutputEntries == AllItems(output_channels) \o enriched

\* the item an output entry was made from
ItemOf(entry) ==
    [novelid |-> entry.novelid, title |-> entry.title, author |-> entry.author,
     channel |-> entry.channel, detail_url |-> entry.detail_url]

(***************************************************************************)
(* C2.  When the detail fetch of an item fails (network error, timeout or  *)
(* non-success HTTP status), the item is still emitted and its detail is   *)
(* all-absent: article_type, viewpoint, word_count, summary, tags,         *)
(* one_sentence and raw are all null.                                      *)
(***************************************************************************)
C2_FailedFetchGivesAllAbsentDetail ==
    pc = "done" =>
        \A k \in 1..Len(requests) :
            requests[k].outcome \in {"raised", "status"} =>
                \E m \in 1..Len(OutputEntries) :
                    /\ OutputEntries[m].novelid = requests[k].novelid
                    /\ OutputEntries[m].detail = NovelDetail

(***************************************************************************)
(* C3.  Failure isolation: whatever detail fetches raise, the run does not *)
(* abort; every item parse_topten returned is in the output exactly once,  *)
(* each with a detail record, and the entry of every item whose fetch did  *)
(* not raise is what it is when no fetch fails.                            *)
(***************************************************************************)
DetailFields ==
    {"article_type", "viewpoint", "word_count", "summary", "tags", "one_sentence", "raw"}

C3_FailureIsolation ==
    /\ pc = "aborted" => requests = << >>
    /\ pc = "done" =>
           LET items == AllBooks(channel_books_map)
               out == OutputEntries
           IN  /\ Len(out) = Len(items)
               /\ \A k \in 1..Len(items) :
                      Cardinality({m \in 1..Len(out) : ItemOf(out[m]) = items[k]}) = 1
               /\ \A m \in 1..Len(out) : DOMAIN out[m].detail = DetailFields
               /\ \A k \in 1..Len(requests) :
                      requests[k].outcome = "ok" =>
                          \E m \in 1..Len(out) :
                              /\ out[m].novelid = requests[k].novelid
                              /\ out[m].detail = parse_detail(Web(out[m].novelid))

\* the second of three fetches raised, the others did not
C3_Witness ==
    /\ pc = "done"
    /\ Len(requests) = 3
    /\ requests[1].outcome = "ok"
    /\ requests[2].outcome = "raised"
    /\ requests[3].outcome = "ok"
    /\ Len(OutputEntries) = 3
    /\ OutputEntries[2].detail = NovelDetail
    /\ OutputEntries[1].detail # NovelDetail

(***************************************************************************)
(* C4.  In the dataset, each novelid is in at most one (item, detail) pair *)
(* over all channel buckets, whether the items come from the container     *)
(* pass or from the whole-document scan.                                   *)
(***************************************************************************)
C4_IdentityInAtMostOnePair ==
    \A m, n \in 1..Len(OutputEntries) :
        OutputEntries[m].novelid = OutputEntries[n].novelid => m = n

\* the identity 1 is in two titled list entries, and in one pair
C4_Witness ==
    /\ pc = "done"
    /\ \E i, j \in 1..Len(listing) :
           /\ i < j
           /\ InContainer(listing, i)
           /\ IdentityOf(listing, i) = 1 /\ IdentityOf(listing, j) = 1
           /\ ContainerTitle(listing[i].link[1]) # << >>
           /\ ContainerTitle(listing[j].link[1]) # << >>
    /\ Cardinality({m \in 1..Len(OutputEntries) : OutputEntries[m].novelid = 1}) = 1

(***************************************************************************)
(* C9.  Processing order: the detail fetches are issued in the order in    *)
(* which the Item Extractor yielded the items (document order over all     *)
(* containers); each channel bucket lists its items in that order, and the *)
(* channels are ordered by first encounter.                                *)
(***************************************************************************)
\* for each yielded entry, the first yielded entry of its channel
FirstOfChannel(chan) ==
    [i \in DOMAIN chan |-> FirstIndex({j \in DOMAIN chan : chan[j] = chan[i]})]

\* the buckets: channels by first encounter, items in document order
BucketsInDocumentOrder(doc, chan, first) ==
    LET firsts == {first[i] : i \in DOMAIN first}
    IN  /\ Len(output_channels) = Cardinality(firsts)
        /\ \A c \in 1..Len(output_channels) :
               LET members == {i \in DOMAIN first : first[i] = Nth(firsts, c)}
               IN  /\ output_channels[c].channel = chan[Nth(firsts, c)]
                   /\ Len(output_channels[c].items) = Cardinality(members)
                   /\ \A k \in 1..Cardinality(members) :
                          output_channels[c].items[k].novelid =
                              IdentityOf(doc, Nth(members, k))

\* C9 as stated: the fetches follow the document order of the yielded entries
C9_FetchesInDocumentOrder ==
    pc = "done" =>
        LET Y == Yielded(listing)
        IN  /\ Len(requests) = Cardinality(Y)
            /\ \A k \in 1..Len(requests) :
                   requests[k].novelid = IdentityOf(listing, Nth(Y, k))
            /\ BucketsInDocumentOrder(listing, ChannelOfEntry(listing),
                                      FirstOfChannel(ChannelOfEntry(listing)))

\* entry i is fetched before entry j: its channel was met first, or they
\* share the channel and i comes first in the document
FetchedBefore(first, i, j) ==
    \/ first[i] < first[j]
    \/ first[i] = first[j] /\ i < j

\* C9 as amended: the fetches go channel by channel, the channels in the
\* order of their first yielded entry, and inside a channel in document order
C9_FetchesChannelByChannel ==
    pc \in {"detail", "done"} =>
        LET chan == ChannelOfEntry(listing)
            first == FirstOfChannel(chan)
            Y == DOMAIN first
        IN  /\ \A i \in Y :
                   LET k == 1 + Cardinality({j \in Y : FetchedBefore(first, j, i)})
                   IN  k <= Len(requests) => requests[k].novelid = IdentityOf(listing, i)
            /\ Len(requests) <= Cardinality(Y)
            /\ pc = "done" =>
                   /\ Len(requests) = Cardinality(Y)
                   /\ BucketsInDocumentOrder(listing, chan, first)

\* three containers labelled 言情, 纯爱, 言情: the third item is fetched second
C9_Witness ==
    /\ pc = "done"
    /\ Len(requests) = 3
    /\ Len(output_channels) = 2
    /\ Cardinality(Yielded(listing)) = 3
    /\ requests[2].novelid = IdentityOf(listing, Nth(Yielded(listing), 3))
    /\ requests[3].novelid = IdentityOf(listing, Nth(Yielded(listing), 2))

====
